---- MODULE Spec2Model ----
(***************************************************************************)
(* Model of src/regex.py: the State classes, the RegexFSM constructor and  *)
(* RegexFSM.check_string with its nested backtracking search can_match.    *)
(*                                                                         *)
(* Python objects live in a heap: a sequence of node records, an object's  *)
(* identity being its index.  Characters are one-character strings and a   *)
(* Python str is a sequence of them.  The code is single-threaded.         *)
(***************************************************************************)
EXTENDS Integers, Sequences, FiniteSets, TLC

VARIABLES
    status,      \* "none": no constructor call yet; "ready": RegexFSM(...) returned; "error": it raised
    regex_expr,  \* self.regex_expr
    heap,        \* the State objects allocated on behalf of the engine, by identity
    ncalls,      \* number of check_string calls completed on the engine
    log,         \* the most recent of them when made as one step, oldest first: <<[input, result], ...>>
    input_str,   \* argument of the check_string call in progress
    stack,       \* call stack of can_match frames of the call in progress
    ret,         \* value returned by the can_match activation that returned last
    raised       \* TRUE once check_string has raised an exception

vars == <<status, regex_expr, heap, ncalls, log, input_str, stack, ret, raised>>

----------------------------------------------------------------------------
(* Bounds of the exploration *)

MaxPatLen == 3     \* longest enumerated pattern
MaxStrLen == 3     \* longest enumerated input string
MaxCalls == 2      \* check_string calls per engine, enumerated patterns
AnchorCalls == 3   \* check_string calls per engine, the patterns named in the specification
MaxReps == 4       \* longest run of leading 'a' in the repetition inputs
RunPatLen == 3     \* longest pattern in the step-by-step specification
RunStrLen == 3     \* longest input in the step-by-step specification
RunCalls == 1      \* check_string calls per engine in the step-by-step specification

----------------------------------------------------------------------------
(* Characters *)

NonAscii == "U+00E9"   \* stands for one character outside ASCII

AsciiChars ==
    {"a", "b", "c", "x", "X", " ", "4", "u", "h", "i", "m", "e", "o", "w", ".", "*", "+"}

isascii(c) == c \in AsciiChars

RECURSIVE SeqsUpTo(_, _)
SeqsUpTo(S, n) ==
    IF n = 0 THEN {<<>>}
    ELSE LET shorter == SeqsUpTo(S, n - 1)
         IN  shorter \cup {Append(q, c) : q \in shorter, c \in S}

Front(q) == SubSeq(q, 1, Len(q) - 1)
Last(q) == q[Len(q)]

----------------------------------------------------------------------------
(* The State classes *)

None == 0

State(kind, sym, inner, nexts) ==
    [kind |-> kind, curr_sym |-> sym, inner_state |-> inner, next_states |-> nexts]

StartState == State("Start", "", None, <<>>)
TerminationState == State("Termination", "", None, <<>>)
DotState == State("Dot", "", None, <<>>)
AsciiState(symbol) == State("Ascii", symbol, None, <<>>)
StarState(inner_state) == State("Star", "", inner_state, <<>>)
PlusState(inner_state) == State("Plus", "", inner_state, <<>>)

\* list.append on the next_states of object id
AppendNext(h, id, target) ==
    [h EXCEPT ![id].next_states = Append(@, target)]

\* the abstract State.check_self, reached through super() by StartState: the body is
\* "pass", the call returns None, which every caller tests for truth
AbstractCheckSelf == FALSE

AsciiCheckSelf(node, char) == node.curr_sym = char

DotCheckSelf(node, char) == TRUE

RECURSIVE check_self(_, _, _)
check_self(h, id, char) ==
    LET node == h[id]
    IN  CASE node.kind = "Start" -> AbstractCheckSelf
          [] node.kind = "Termination" -> FALSE
          [] node.kind = "Dot" -> DotCheckSelf(node, char)
          [] node.kind = "Ascii" -> AsciiCheckSelf(node, char)
          [] node.kind = "Star" ->
                \E k \in 1..Len(node.next_states) : check_self(h, node.next_states[k], char)
          [] node.kind = "Plus" -> check_self(h, node.inner_state, char)

----------------------------------------------------------------------------
(* RegexFSM.__init__ *)

start_state == 1

Raise == State("AttributeError", "", None, <<>>)

\* __init_next_state: the new state, or Raise for an unsupported character
init_next_state(next_token, prev_state, tmp_next_state) ==
    IF next_token = "." THEN DotState
    ELSE IF next_token = "*" THEN [StarState(tmp_next_state) EXCEPT !.next_states = <<tmp_next_state>>]
    ELSE IF next_token = "+" THEN [PlusState(tmp_next_state) EXCEPT !.next_states = <<tmp_next_state>>]
    ELSE IF isascii(next_token) THEN AsciiState(next_token)
    ELSE Raise

\* the loop of __init__ from character i on; prev_state stays the start state
RECURSIVE InitLoop(_, _, _, _)
InitLoop(h, expr, i, tmp_next_state) ==
    IF i > Len(expr) THEN [ok |-> TRUE, heap |-> h]
    ELSE LET new_state == init_next_state(expr[i], start_state, tmp_next_state)
             id == Len(h) + 1
         IN  IF new_state = Raise THEN [ok |-> FALSE, heap |-> <<>>]
             ELSE InitLoop(AppendNext(Append(h, new_state), start_state, id), expr, i + 1, id)

RegexFSM(expr) == InitLoop(<<StartState>>, expr, 1, start_state)

----------------------------------------------------------------------------
(* RegexFSM.check_string: the graph it builds *)

\* Variant: the states list outlives the call (an attribute or a mutable default argument
\* instead of a local), so a call starts from the chain the previous call left behind.
RECURSIVE ChainFrom(_, _)
ChainFrom(h, id) ==
    IF h[id].kind = "Termination" THEN <<>>
    ELSE IF h[id].next_states = <<>> THEN <<id>>
    ELSE <<id>> \o ChainFrom(h, Last(h[id].next_states))

InitialStatesKept(h) ==
    IF \E n \in 1..Len(h) : h[n].kind = "Termination"
      THEN ChainFrom(h, h[start_state].next_states[1])
      ELSE <<>>

\* states = []
InitialStates(h) == <<>>

\* Variant: the '*' branch builds a PlusState
StarOfAsPlus(prev) == [PlusState(prev) EXCEPT !.next_states = <<prev>>]

\* Variant: the '+' branch builds a StarState
PlusOfAsStar(prev) == [StarState(prev) EXCEPT !.next_states = <<prev>>]

StarOf(prev) == [StarState(prev) EXCEPT !.next_states = <<prev>>]

PlusOf(prev) == [PlusState(prev) EXCEPT !.next_states = <<prev>>]

\* the while loop over self.regex_expr from character i on
RECURSIVE ScanLoop(_, _, _, _)
ScanLoop(h, states, expr, i) ==
    IF i > Len(expr) THEN [heap |-> h, states |-> states]
    ELSE LET c == expr[i]
             id == Len(h) + 1
         IN  IF c = "*" /\ states # <<>>
               THEN ScanLoop(Append(h, StarOf(Last(states))), Append(Front(states), id), expr, i + 1)
             ELSE IF c = "+" /\ states # <<>>
               THEN ScanLoop(Append(h, PlusOf(Last(states))), Append(Front(states), id), expr, i + 1)
             ELSE IF c = "."
               THEN ScanLoop(Append(h, DotState), Append(states, id), expr, i + 1)
             ELSE ScanLoop(Append(h, AsciiState(c)), Append(states, id), expr, i + 1)

\* for i in range(len(states) - 1): states[i].next_states.append(states[i + 1])
RECURSIVE LinkLoop(_, _, _)
LinkLoop(h, states, i) ==
    IF i >= Len(states) THEN h
    ELSE LinkLoop(AppendNext(h, states[i], states[i + 1]), states, i + 1)

\* the TerminationState and the rewiring of start_state
Terminate(h, states) ==
    LET term == Len(h) + 1
        h1 == Append(h, TerminationState)
    IN  IF states # <<>>
          THEN [AppendNext(h1, Last(states), term) EXCEPT ![start_state].next_states = <<states[1]>>]
          ELSE [h1 EXCEPT ![start_state].next_states = <<term>>]

\* lines 139-167: the heap when can_match is first called
BuildGraph(h, expr) ==
    LET scan == ScanLoop(h, InitialStates(h), expr, 1)
    IN  Terminate(LinkLoop(scan.heap, scan.states, 1), scan.states)

----------------------------------------------------------------------------
(* can_match, as a function of its arguments (positions count from 0) *)

IsTermination(h, n) == h[n].kind = "Termination"

\* Variant: the zero-occurrence skip tests for PlusState
IsStarStateAsPlus(h, n) == h[n].kind = "Plus"

IsStarState(h, n) == h[n].kind = "Star"

\* Variant: the zero-occurrence skip recurses on the current state
SkipCalleeSelf(state, next_state) == state

\* the state the zero-occurrence skip recurses on: can_match(next_state, s, pos)
SkipCallee(state, next_state) == next_state

RECURSIVE can_match(_, _, _, _)
can_match(h, state, s, pos) ==
    LET nexts == h[state].next_states
    IN  IF pos = Len(s)
          THEN \E k \in 1..Len(nexts) :
                  IsTermination(h, nexts[k]) \/ can_match(h, nexts[k], s, pos)
          ELSE \/ check_self(h, state, s[pos + 1]) /\ can_match(h, state, s, pos + 1)
               \/ \E k \in 1..Len(nexts) :
                    \/ check_self(h, nexts[k], s[pos + 1]) /\ can_match(h, nexts[k], s, pos + 1)
                    \/ IsStarState(h, nexts[k]) /\ can_match(h, SkipCallee(state, nexts[k]), s, pos)

check_string(h, expr, s) ==
    LET g == BuildGraph(h, expr)
    IN  [heap |-> g, result |-> can_match(g, start_state, s, 0)]

----------------------------------------------------------------------------
(* Operations, each as one atomic call *)

Init ==
    /\ status = "none"
    /\ regex_expr = <<>>
    /\ heap = <<>>
    /\ ncalls = 0
    /\ log = <<>>
    /\ input_str = <<>>
    /\ stack = <<>>
    /\ ret = FALSE
    /\ raised = FALSE

\* engine = RegexFSM(p)
New(p) ==
    /\ status = "none"
    /\ LET made == RegexFSM(p)
       IN  /\ status' = IF made.ok THEN "ready" ELSE "error"
           /\ heap' = made.heap
    /\ regex_expr' = p
    /\ UNCHANGED <<ncalls, log, input_str, stack, ret, raised>>

\* the log after one more call, keeping the latest keep entries
Logged(old, entry, keep) ==
    LET all == Append(old, entry)
    IN  IF Len(all) > keep THEN SubSeq(all, Len(all) - keep + 1, Len(all)) ELSE all

\* engine.check_string(s)
Check(s, limit, keep) ==
    /\ status = "ready"
    /\ stack = <<>>
    /\ ~raised
    /\ ncalls < limit
    /\ LET call == check_string(heap, regex_expr, s)
       IN  /\ heap' = call.heap
           /\ log' = Logged(log, [input |-> s, result |-> call.result], keep)
           /\ ret' = call.result
    /\ ncalls' = ncalls + 1
    /\ UNCHANGED <<status, regex_expr, input_str, stack, raised>>

PatternChars == {"a", "b", ".", "*", "+", NonAscii}
InputChars == {"a", "b"}

Patterns == SeqsUpTo(PatternChars, MaxPatLen)
Inputs == SeqsUpTo(InputChars, MaxStrLen)

Next ==
    \/ \E p \in Patterns : New(p)
    \/ \E s \in Inputs : Check(s, MaxCalls, 1)

Spec == Init /\ [][Next]_vars

----------------------------------------------------------------------------
(* check_string step by step: can_match with its call stack.  A frame is one  *)
(* activation of can_match; pc names the point it resumes at and k the index  *)
(* of the successor its loop is at.                                           *)

Frame(state, pos) == [state |-> state, pos |-> pos, pc |-> "entry", k |-> 0]

\* deepest recursion the bounded patterns and inputs can need, with room to spare
DepthCap == RunPatLen + RunStrLen + 4

top == stack[Len(stack)]
topNexts == heap[top.state].next_states
topChar == input_str[top.pos + 1]

Running(pc) == stack # <<>> /\ ~raised /\ top.pc = pc

\* the frame goes on at pc with loop index k
Goto(pc, k) ==
    /\ stack' = [stack EXCEPT ![Len(stack)].pc = pc, ![Len(stack)].k = k]
    /\ UNCHANGED <<status, regex_expr, heap, ncalls, log, input_str, ret, raised>>

\* the frame calls can_match(state, s, pos) and resumes at pc when it returns
Call(pc, state, pos) ==
    /\ Len(stack) < DepthCap
    /\ stack' = Append([stack EXCEPT ![Len(stack)].pc = pc], Frame(state, pos))
    /\ UNCHANGED <<status, regex_expr, heap, ncalls, log, input_str, ret, raised>>

\* the frame returns v; the outermost frame's value is what check_string returns
Return(v) ==
    /\ stack' = Front(stack)
    /\ ret' = v
    /\ IF Len(stack) = 1
         THEN /\ ncalls' = ncalls + 1
              /\ input_str' = <<>>
         ELSE UNCHANGED <<ncalls, input_str>>
    /\ UNCHANGED <<status, regex_expr, heap, log, raised>>

\* an exception unwinds every frame and leaves check_string
RaiseOut ==
    /\ raised' = TRUE
    /\ stack' = <<>>
    /\ UNCHANGED <<status, regex_expr, heap, ncalls, log, input_str, ret>>

\* lines 139-167 and the call can_match(self.start_state, input_str, 0)
Begin(s) ==
    /\ status = "ready"
    /\ stack = <<>>
    /\ ~raised
    /\ ncalls < RunCalls
    /\ heap' = BuildGraph(heap, regex_expr)
    /\ input_str' = s
    /\ stack' = <<Frame(start_state, 0)>>
    /\ UNCHANGED <<status, regex_expr, ncalls, log, ret, raised>>

\* lines 170 and 174: s[pos] past the end would raise IndexError
Enter ==
    /\ Running("entry")
    /\ IF top.pos = Len(input_str) THEN Goto("any", 1)
       ELSE IF top.pos > Len(input_str) THEN RaiseOut
       ELSE IF check_self(heap, top.state, topChar) THEN Call("self_ret", top.state, top.pos + 1)
       ELSE Goto("for", 1)

\* lines 171-172: the next element of any(...)
AnyNext ==
    /\ Running("any")
    /\ IF top.k > Len(topNexts) THEN Return(FALSE)
       ELSE IF IsTermination(heap, topNexts[top.k]) THEN Return(TRUE)
       ELSE Call("any_ret", topNexts[top.k], top.pos)

AnyReturn ==
    /\ Running("any_ret")
    /\ IF ret THEN Return(TRUE) ELSE Goto("any", top.k + 1)

\* lines 175-176
SelfReturn ==
    /\ Running("self_ret")
    /\ IF ret THEN Return(TRUE) ELSE Goto("for", 1)

\* lines 178-179
ForNext ==
    /\ Running("for")
    /\ IF top.k > Len(topNexts) THEN Return(FALSE)
       ELSE IF check_self(heap, topNexts[top.k], topChar)
         THEN Call("for_ret", topNexts[top.k], top.pos + 1)
       ELSE Goto("skip", top.k)

\* line 180
ForReturn ==
    /\ Running("for_ret")
    /\ IF ret THEN Return(TRUE) ELSE Goto("skip", top.k)

\* line 181
Skip ==
    /\ Running("skip")
    /\ IF IsStarState(heap, topNexts[top.k])
         THEN Call("skip_ret", SkipCallee(top.state, topNexts[top.k]), top.pos)
         ELSE Goto("for", top.k + 1)

\* line 182
SkipReturn ==
    /\ Running("skip_ret")
    /\ IF ret THEN Return(TRUE) ELSE Goto("for", top.k + 1)

StepRun ==
    \/ Enter
    \/ AnyNext
    \/ AnyReturn
    \/ SelfReturn
    \/ ForNext
    \/ ForReturn
    \/ Skip
    \/ SkipReturn

RunPatternChars == {"a", ".", "*", "+", NonAscii}
RunPatterns == SeqsUpTo(RunPatternChars, RunPatLen)
RunInputs == SeqsUpTo(InputChars, RunStrLen)

NextRun ==
    \/ \E p \in RunPatterns : New(p)
    \/ \E s \in RunInputs : Begin(s)
    \/ StepRun

\* the interpreter runs a call in progress to its end: nothing else is scheduled
SpecRun == Init /\ [][NextRun]_vars /\ WF_vars(StepRun)

----------------------------------------------------------------------------
(* The patterns and inputs the specification names *)

WildcardPattern == <<"a", ".", "c">>
StarPattern == <<"a", "*", "b", "c">>
PlusPattern == <<"a", "+", "b", "c">>
CompositePattern == <<"a", "*", "4", ".", "+", "h", "i">>

RECURSIVE Repeat(_, _)
Repeat(c, n) == IF n = 0 THEN <<>> ELSE <<c>> \o Repeat(c, n - 1)

LeadingAs(n) == Repeat("a", n) \o <<"b", "c">>

Composite1 == Repeat("a", 6) \o <<"4", "u", "h", "i">>
Composite2 == <<"4", "u", "h", "i">>
Composite3 == <<"m", "e", "o", "w">>

AnchorPatterns == {WildcardPattern, StarPattern, PlusPattern, CompositePattern}

AnchorInputs ==
    {LeadingAs(n) : n \in 0..MaxReps}
        \cup {<<"x", "b", "c">>, <<"a", "X", "c">>, <<"a", " ", "c">>, <<"a", "c">>}
        \cup {Composite1, Composite2, Composite3}

NextAnchor ==
    \/ \E p \in AnchorPatterns : New(p)
    \/ \E s \in AnchorInputs : Check(s, AnchorCalls, AnchorCalls)

SpecAnchor == Init /\ [][NextAnchor]_vars

----------------------------------------------------------------------------
(* The pattern language of the specification, independent of the graph *)

Quantifiers == {"*", "+"}

\* every character is supported and every quantifier has an atom before it
WellFormed(p) ==
    /\ \A i \in 1..Len(p) : isascii(p[i])
    /\ p # <<>> => p[1] \notin Quantifiers

LiteralOnly(p) ==
    \A i \in 1..Len(p) : isascii(p[i]) /\ p[i] \notin Quantifiers \cup {"."}

\* quantifiers stacked on one atom: zero occurrences are allowed once any of them is '*'
Quantified(old, c) == IF c = "*" \/ old = "star" THEN "star" ELSE "plus"

RECURSIVE Items(_, _, _)
Items(p, i, items) ==
    IF i > Len(p) THEN items
    ELSE IF p[i] \in Quantifiers
      THEN Items(p, i + 1, [items EXCEPT ![Len(items)].q = Quantified(@, p[i])])
      ELSE Items(p, i + 1, Append(items, [atom |-> p[i], q |-> "one"]))

AtomMatches(atom, c) == atom = "." \/ atom = c

RECURSIVE Derives(_, _)
Derives(items, s) ==
    IF items = <<>> THEN s = <<>>
    ELSE LET it == Head(items)
             one == s # <<>> /\ AtomMatches(it.atom, Head(s))
         IN  CASE it.q = "one" -> one /\ Derives(Tail(items), Tail(s))
               [] it.q = "plus" ->
                    one /\ Derives(<<[it EXCEPT !.q = "star"]>> \o Tail(items), Tail(s))
               [] it.q = "star" ->
                    Derives(Tail(items), s) \/ (one /\ Derives(items, Tail(s)))

InLanguage(p, s) == Derives(Items(p, 1, <<>>), s)

----------------------------------------------------------------------------
(* Helpers of the properties *)

Inputs_(l) == [k \in 1..Len(l) |-> l[k].input]
Results(l) == [k \in 1..Len(l) |-> l[k].result]

Called(s, r) == \E k \in 1..Len(log) : log[k] = [input |-> s, result |-> r]

\* what check_string(s) returns as the first call on a freshly constructed engine
FirstCallResult(p, s) == check_string(RegexFSM(p).heap, p, s).result

RECURSIVE ReachableFrom(_, _, _)
ReachableFrom(h, frontier, seen) ==
    IF frontier = {} THEN seen
    ELSE LET succ == UNION {{h[n].next_states[k] : k \in 1..Len(h[n].next_states)} : n \in frontier}
         IN  ReachableFrom(h, succ \ (seen \cup frontier), seen \cup frontier)

\* the nodes reachable from start_state, each with its ordered next_states
GraphOf(h) == [n \in ReachableFrom(h, {start_state}, {}) |-> h[n].next_states]

----------------------------------------------------------------------------
(* Properties under Spec *)

\* C1: for a well-formed pattern, check_string returns True exactly for the inputs in the
\* pattern's language: no prefix, partial or over-long match is accepted.
C1_WholeStringAcceptance ==
    WellFormed(regex_expr) =>
        \A k \in 1..Len(log) : log[k].result = InLanguage(regex_expr, log[k].input)

\* C2: a pattern of literal characters only accepts exactly the input equal to the pattern;
\* every proper prefix and every extension is rejected.
C2_LiteralExact ==
    LiteralOnly(regex_expr) =>
        \A k \in 1..Len(log) : log[k].result = (log[k].input = regex_expr)

\* C7: constructing an engine from a pattern whose '*' or '+' has no preceding atom fails:
\* no engine is produced and no check_string call runs against it.
C7_QuantifierNeedsOperand ==
    (regex_expr # <<>> /\ regex_expr[1] \in Quantifiers) => (status # "ready" /\ ncalls = 0)

\* C9: whatever calls came before, check_string(s) returns what it returns as the first
\* call on a freshly constructed engine for the same pattern.
C9_HistoryIndependent ==
    \A k \in 1..Len(log) : log[k].result = FirstCallResult(regex_expr, log[k].input)

C9_Witness ==
    /\ ncalls >= 2
    /\ Len(regex_expr) >= 2
    /\ heap # check_string(RegexFSM(regex_expr).heap, regex_expr, Last(log).input).heap
    /\ Last(log).result

\* C10: check_string leaves the graph as the constructor built it: the nodes reachable
\* from start_state and each one's ordered next_states are unchanged.
C10_GraphUnchanged ==
    status = "ready" => GraphOf(heap) = GraphOf(RegexFSM(regex_expr).heap)

----------------------------------------------------------------------------
(* Properties under SpecAnchor *)

\* C3: for pattern "a.c" the inputs "abc", "aXc" and "a c" are accepted and "ac" is rejected.
C3_WildcardOneChar ==
    regex_expr = WildcardPattern =>
        \A k \in 1..Len(log) :
            /\ log[k].input \in {<<"a", "b", "c">>, <<"a", "X", "c">>, <<"a", " ", "c">>}
                  => log[k].result
            /\ log[k].input = <<"a", "c">> => ~log[k].result

\* C4: for pattern "a*bc" the input of n leading 'a' followed by "bc" is accepted for every
\* n >= 0, and "xbc" is rejected.
C4_StarZeroOrMore ==
    regex_expr = StarPattern =>
        \A k \in 1..Len(log) :
            /\ (\E n \in 0..Len(log[k].input) : log[k].input = LeadingAs(n)) => log[k].result
            /\ log[k].input = <<"x", "b", "c">> => ~log[k].result

C4_Witness ==
    /\ regex_expr = StarPattern
    /\ Called(LeadingAs(0), TRUE)
    /\ Called(LeadingAs(MaxReps), TRUE)
    /\ Called(<<"x", "b", "c">>, FALSE)

\* C5: for pattern "a+bc" the input "bc" is rejected and "abc" and "aaabc" are accepted.
C5_PlusOneOrMore ==
    regex_expr = PlusPattern =>
        \A k \in 1..Len(log) :
            /\ log[k].input = LeadingAs(0) => ~log[k].result
            /\ log[k].input \in {LeadingAs(1), LeadingAs(3)} => log[k].result

C5_Witness ==
    /\ regex_expr = PlusPattern
    /\ Called(LeadingAs(0), FALSE)
    /\ Called(LeadingAs(1), TRUE)
    /\ Called(LeadingAs(3), TRUE)

\* C6: on one engine for "a*4.+hi", the calls check_string("aaaaaa4uhi"),
\* check_string("4uhi"), check_string("meow"), made in that order, return True, True, False.
C6_CompositeExample ==
    (regex_expr = CompositePattern /\ Inputs_(log) = <<Composite1, Composite2, Composite3>>)
        => Results(log) = <<TRUE, TRUE, FALSE>>

C6_Witness ==
    /\ regex_expr = CompositePattern
    /\ ncalls = 3
    /\ log = << [input |-> Composite1, result |-> TRUE],
                [input |-> Composite2, result |-> TRUE],
                [input |-> Composite3, result |-> FALSE] >>

----------------------------------------------------------------------------
(* Properties under SpecRun *)

====
